---- MODULE Spec2Model ----
(***************************************************************************)
(* Model of the Ollama model adapter, src/pkg/model/ollama/ollama.go:      *)
(* one GenerateContent call (sync or streaming) running against a backend  *)
(* (chatClient.Chat) that delivers chunks to the call's callback, a        *)
(* consumer that ranges over the returned iter.Seq2, and a context that    *)
(* may be cancelled at any moment; and of the file tools fileRead and      *)
(* fileWrite, src/unnamed/part_003, over the files of one workspace.       *)
(*                                                                         *)
(* Go pointers are modelled as sequences of length at most one:            *)
(* <<>> is nil and <<v>> is a pointer to v.  An option map is modelled as  *)
(* the sequence of its <<key, value>> entries.                             *)
(***************************************************************************)
EXTENDS Integers, Sequences, FiniteSets, TLC

VARIABLES
    cfg,          \* the *Config handed to NewModel
    newErr,       \* the error returned by NewModel ("nil" for none)
    config,       \* req.Config of the call's *model.LLMRequest
    g,            \* the generator's baseModel (name, baseURL, options)
    stream,       \* the stream argument of Model.GenerateContent
    req,          \* req.Contents of the call's *model.LLMRequest
    ctxErr,       \* TRUE iff ctx.Err() != nil (the call's context is done)
    pc,           \* position of the iterator function
    chatReq,      \* the *api.ChatRequest handed to client.Chat (<<>> before)
    chatCalls,    \* number of client.Chat calls issued by this generate call
    response,     \* sync mode: var response api.ChatResponse (the collector)
    chunkCount,   \* stream mode: var chunkCount int
    lastResponse, \* stream mode: var lastResponse *api.ChatResponse
    err,          \* the error returned by client.Chat ("nil" for none)
    delivered,    \* history: the chunks the backend handed to the callback
    emitted,      \* history: the (response, error) pairs passed to yield
    stoppedAt,    \* Len(emitted) when yield returned false, 0 if it never did
    prev,         \* history: request and messages of the handle's earlier calls
    dirs,         \* file system: the directories that exist
    files,        \* file system: the content of every regular file
    ops,          \* number of tool calls started so far
    tpc,          \* position of the running fileWrite call ("idle" for none)
    input,        \* the input of the last tool call (or of the one to come)
    resolvedPath, \* fileWrite, fileRead: resolvedPath (<<>> before it is set)
    writeErr,     \* fileWrite: var writeErr error ("nil" for none)
    output,       \* the output of the last tool call that returned
    pending,      \* writer goroutines left running by calls that timed out
    before,       \* history: files when the last fileWrite call started
    lastOk        \* history: per file, the content of its last successful write

\* the state of the adapter and of one generate call
genVars == <<cfg, newErr, config, g, stream, req, ctxErr, pc, chatReq, chatCalls, response,
             chunkCount, lastResponse, err, delivered, emitted, stoppedAt, prev>>

\* the state of the file tools and of the file system under them
toolVars == <<dirs, files, ops, tpc, input, resolvedPath, writeErr, output,
              pending, before, lastOk>>

vars == <<genVars, toolVars>>

-----------------------------------------------------------------------------
(* Bounds and input sets *)

\* the backend delivers at most this many chunks in one Chat call
MaxChunks == 3

\* message texts a backend chunk may carry
ChunkTexts == {"Hel", "lo"}

\* (PromptEvalCount, EvalCount) pairs a backend chunk may carry
ChunkCounts == {<<0, 0>>, <<3, 2>>}

\* the zero value of api.ChatResponse (only the fields the adapter reads)
ZeroChatResponse ==
    [Message |-> [Role |-> "", Content |-> ""], Done |-> FALSE,
     PromptEvalCount |-> 0, EvalCount |-> 0]

\* the api.ChatResponse values the backend may deliver
Chunks ==
    { [Message |-> [Role |-> "assistant", Content |-> t], Done |-> d,
       PromptEvalCount |-> c[1], EvalCount |-> c[2]] :
         t \in ChunkTexts, d \in BOOLEAN, c \in ChunkCounts }

\* errors a backend call may return on its own: a generic API error and
\* context.Canceled
BackendErrors == {"mock API error", "context canceled"}

\* a *genai.Part with only Text set
TextPart(t) == <<[Text |-> t, InlineData |-> <<>>, FunctionCall |-> <<>>]>>

\* a *genai.Content with the given role and parts
Content(role, parts) == <<[Role |-> role, Parts |-> parts]>>

\* the req.Contents values of the modelled calls
Requests ==
    { <<>>,
      <<Content("user", <<TextPart("Hello")>>)>>,
      <<Content("user", <<TextPart("Hello")>>),
        Content("model", <<TextPart("Hi"), TextPart(" there")>>)>> }

-----------------------------------------------------------------------------
(* Pure functions of the adapter *)

MaxInt32 == 2147483647
MinInt32 == (-2147483647) - 1

\* int32(a + b) for a, b within the int32 range: two's complement wrap-around
Int32Sum(a, b) ==
    IF b > 0 /\ a > MaxInt32 - b THEN MinInt32 + ((a - (MaxInt32 - b)) - 1)
    ELSE IF b < 0 /\ a < MinInt32 - b THEN MaxInt32 - (((MinInt32 - b) - a) - 1)
    ELSE a + b

\* PartsText keeping the text of the parts only: inline data and function
\* calls leave no trace
RECURSIVE PartsTextDropsNonText(_, _)
PartsTextDropsNonText(parts, i) ==
    IF i > Len(parts) THEN ""
    ELSE IF parts[i] = <<>> THEN PartsTextDropsNonText(parts, i + 1)
    ELSE parts[i][1].Text \o PartsTextDropsNonText(parts, i + 1)

\* the text extracted from the parts of one content, from part i on
RECURSIVE PartsText(_, _)
PartsText(parts, i) ==
    IF i > Len(parts) THEN ""
    ELSE IF parts[i] = <<>> THEN PartsText(parts, i + 1)
    ELSE LET part == parts[i][1]
             t1 == IF part.Text # "" THEN part.Text ELSE ""
             t2 == IF part.InlineData # <<>>
                   THEN "[Inline data not yet supported]" ELSE ""
             t3 == IF part.FunctionCall # <<>>
                   THEN "[FunctionCall: " \o part.FunctionCall[1].Name \o "]"
                   ELSE ""
         IN  t1 \o t2 \o t3 \o PartsText(parts, i + 1)

\* the role of the api.Message built for a content
MessageRole(role) ==
    IF role = "" THEN "user"
    ELSE IF role = "model" THEN "assistant"
    ELSE role

\* MessagesFrom putting each message in front of the ones built so far
RECURSIVE MessagesFromReversed(_, _)
MessagesFromReversed(contents, i) ==
    IF i > Len(contents) THEN <<>>
    ELSE IF contents[i] = <<>> THEN MessagesFromReversed(contents, i + 1)
    ELSE LET content == contents[i][1]
         IN  MessagesFromReversed(contents, i + 1)
             \o <<[Role |-> MessageRole(content.Role),
                   Content |-> PartsText(content.Parts, 1)]>>

\* convertContentsToMessages, from content i on
RECURSIVE MessagesFrom(_, _)
MessagesFrom(contents, i) ==
    IF i > Len(contents) THEN <<>>
    ELSE IF contents[i] = <<>> THEN MessagesFrom(contents, i + 1)
    ELSE LET content == contents[i][1]
         IN  <<[Role |-> MessageRole(content.Role),
                Content |-> PartsText(content.Parts, 1)]>>
             \o MessagesFrom(contents, i + 1)

\* convertContentsToMessages making up an empty user message for a request
\* without contents
convertContentsToMessagesFabricates(contents) ==
    IF contents = <<>> THEN <<[Role |-> "user", Content |-> ""]>>
    ELSE MessagesFrom(contents, 1)

convertContentsToMessages(contents) == MessagesFrom(contents, 1)

\* convertChatResponseToLLMResponse setting the finish reason whatever Done is
convertChatResponseAlwaysStop(resp) ==
    [Content |-> <<[Role |-> "model",
                    Parts |-> <<[Text |-> resp.Message.Content]>>]>>,
     UsageMetadata |->
        IF resp.PromptEvalCount > 0 \/ resp.EvalCount > 0
        THEN <<[PromptTokenCount |-> resp.PromptEvalCount,
                CandidatesTokenCount |-> resp.EvalCount,
                TotalTokenCount |->
                    Int32Sum(resp.PromptEvalCount, resp.EvalCount)]>>
        ELSE <<>>,
     FinishReason |-> "STOP",
     Partial |-> FALSE,
     TurnComplete |-> FALSE]

\* convertChatResponseToLLMResponse leaving out the part of an empty text
convertChatResponseSkipsEmptyText(resp) ==
    [Content |-> <<[Role |-> "model",
                    Parts |-> IF resp.Message.Content = "" THEN <<>>
                              ELSE <<[Text |-> resp.Message.Content]>>]>>,
     UsageMetadata |->
        IF resp.PromptEvalCount > 0 \/ resp.EvalCount > 0
        THEN <<[PromptTokenCount |-> resp.PromptEvalCount,
                CandidatesTokenCount |-> resp.EvalCount,
                TotalTokenCount |->
                    Int32Sum(resp.PromptEvalCount, resp.EvalCount)]>>
        ELSE <<>>,
     FinishReason |-> IF resp.Done THEN "STOP" ELSE "",
     Partial |-> FALSE,
     TurnComplete |-> FALSE]

\* convertChatResponseToLLMResponse: Partial and TurnComplete keep their
\* zero value
convertChatResponseToLLMResponse(resp) ==
    [Content |-> <<[Role |-> "model",
                    Parts |-> <<[Text |-> resp.Message.Content]>>]>>,
     UsageMetadata |->
        IF resp.PromptEvalCount > 0 \/ resp.EvalCount > 0
        THEN <<[PromptTokenCount |-> resp.PromptEvalCount,
                CandidatesTokenCount |-> resp.EvalCount,
                TotalTokenCount |->
                    Int32Sum(resp.PromptEvalCount, resp.EvalCount)]>>
        ELSE <<>>,
     FinishReason |-> IF resp.Done THEN "STOP" ELSE "",
     Partial |-> FALSE,
     TurnComplete |-> FALSE]

-----------------------------------------------------------------------------
(* Paths of the file tools.  A path string is modelled as the sequence of  *)
(* its components, the strings between its separators: "subdir/file.txt"   *)
(* is <<"subdir", "file.txt">>, "/etc" is <<"", "etc">>, "/" is <<"", "">> *)
(* and the empty string is <<"">>.                                         *)

\* the longest user path of the modelled inputs, in components
MaxPathLen == 4

\* the components of the modelled user paths
PathNames == {"", ".", "..", "subdir", "file.txt", "workspace-evil"}

\* the pairs <<a, b>> of distinct non-empty components of the model where
\* the string a is a prefix of the string b
ProperPrefixes == {<<"workspace", "workspace-evil">>}

\* strings.HasPrefix on one component
NameHasPrefix(name, prefix) ==
    prefix = "" \/ prefix = name \/ <<prefix, name>> \in ProperPrefixes

\* strings.HasPrefix(s, prefix): the components before the last one of
\* prefix are matched whole, its last one is matched as a string prefix
HasPrefix(s, prefix) ==
    /\ Len(s) >= Len(prefix)
    /\ \A i \in 1..(Len(prefix) - 1) : s[i] = prefix[i]
    /\ NameHasPrefix(s[Len(prefix)], prefix[Len(prefix)])

\* filepath.IsAbs on Unix: the path string starts with a separator
IsAbs(path) == Len(path) >= 2 /\ path[1] = ""

RECURSIVE CleanFrom(_, _, _, _)
\* the loop of filepath.Clean over the components from the i-th on: empty
\* components and "." are dropped, ".." removes the component before it,
\* is dropped at the root and is kept at the start of a relative path
CleanFrom(path, i, rooted, out) ==
    IF i > Len(path) THEN out
    ELSE IF path[i] = "" \/ path[i] = "."
    THEN CleanFrom(path, i + 1, rooted, out)
    ELSE IF path[i] # ".."
    THEN CleanFrom(path, i + 1, rooted, Append(out, path[i]))
    ELSE IF out # <<>> /\ out[Len(out)] # ".."
    THEN CleanFrom(path, i + 1, rooted, SubSeq(out, 1, Len(out) - 1))
    ELSE IF rooted
    THEN CleanFrom(path, i + 1, rooted, out)
    ELSE CleanFrom(path, i + 1, rooted, Append(out, ".."))

\* filepath.Clean: the shortest path equivalent to path by lexical processing
Clean(path) ==
    LET out == CleanFrom(path, 1, IsAbs(path), <<>>)
    IN  IF IsAbs(path)
        THEN <<"">> \o (IF out = <<>> THEN <<"">> ELSE out)
        ELSE IF out = <<>> THEN <<".">> ELSE out

\* filepath.Join of two non-empty paths: joined by a separator and cleaned
Join(a, b) == Clean(a \o b)

\* the working directory of the process
Getwd == <<"", "tmp">>

\* filepath.Abs: an absolute path is cleaned, a relative one is joined to
\* the working directory
Abs(path) == IF IsAbs(path) THEN Clean(path) ELSE Join(Getwd, path)

\* the workspace directory the tools are created with: "./workspace"
DefaultWorkspaceDir == <<".", "workspace">>

\* resolveWorkspacePath accepting a path that has the workspace path as a
\* string prefix, without the separator after it
resolveWorkspacePathNoSeparator(workspaceDir, userPath) ==
    LET cleanUserPath == Clean(userPath)
    IN  IF IsAbs(cleanUserPath)
        THEN [path |-> <<>>, err |-> "absolute paths are not allowed"]
        ELSE LET absWorkspace == Abs(workspaceDir)
                 fullPath == Join(absWorkspace, cleanUserPath)
                 absFullPath == Abs(fullPath)
             IN  IF ~HasPrefix(absFullPath, absWorkspace)
                 THEN [path |-> <<>>, err |-> "path traversal detected"]
                 ELSE [path |-> absFullPath, err |-> "nil"]

\* resolveWorkspacePath: the (string, error) pair returned for userPath; the
\* messages are modelled without the path they end with
resolveWorkspacePath(workspaceDir, userPath) ==
    LET cleanUserPath == Clean(userPath)
    IN  IF IsAbs(cleanUserPath)
        THEN [path |-> <<>>, err |-> "absolute paths are not allowed"]
        ELSE LET absWorkspace == Abs(workspaceDir)
                 fullPath == Join(absWorkspace, cleanUserPath)
                 absFullPath == Abs(fullPath)
             IN  IF /\ ~HasPrefix(absFullPath, Append(absWorkspace, ""))
                    /\ absFullPath # absWorkspace
                 THEN [path |-> <<>>, err |-> "path traversal detected"]
                 ELSE [path |-> absFullPath, err |-> "nil"]

-----------------------------------------------------------------------------
(* The file system under the tools: directories and regular files, each    *)
(* named by its absolute path                                              *)

\* the root directory
Root == <<"", "">>

\* the directory path and the directories above it
Ancestors(path) == {Root} \cup {SubSeq(path, 1, n) : n \in 2..Len(path)}

\* filepath.Dir of an absolute path: all but its last component
Dir(path) ==
    IF Len(path) <= 2 THEN Root ELSE SubSeq(path, 1, Len(path) - 1)

\* os.MkdirAll(path) fails iff path or a directory above it is a regular file
MkdirAllFails(fs, path) == \E a \in Ancestors(path) : a \in DOMAIN fs

\* the directories after a successful os.MkdirAll(path)
MkdirAll(ds, path) == ds \cup Ancestors(path)

\* the file system with no regular file
NoFiles == [p \in {} |-> ""]

\* the files after a successful os.WriteFile(path, content): the file is
\* created or truncated, then content is written
WriteFile(fs, path, content) ==
    [p \in DOMAIN fs \cup {path} |-> IF p = path THEN content ELSE fs[p]]

\* the error of os.WriteFile(path, ...): a directory cannot be opened for
\* writing
WriteFileErr(ds, path) == IF path \in ds THEN "is a directory" ELSE "nil"

\* MaxFileSize: the largest content the tools read or write, in bytes
MaxFileSize == 10 * 1024 * 1024

\* a content of MaxFileSize + 1 bytes, modelled by a short string
HugeContent == "<MaxFileSize+1 bytes>"

\* len(content) in bytes
len(content) == IF content = HugeContent THEN MaxFileSize + 1 ELSE 1

\* the contents of the modelled fileWrite calls
Contents == {"A", "B", HugeContent}

\* the paths of the modelled calls of the tools in one workspace:
\* "file.txt", "subdir/file.txt", "subdir", "../file.txt", "/file.txt"
ToolPaths ==
    { <<"file.txt">>, <<"subdir", "file.txt">>, <<"subdir">>,
      <<"..", "file.txt">>, <<"", "file.txt">> }

\* the tools handle at most this many calls
MaxOps == 3

\* the zero FileWriteInput
NoInput == [Path |-> <<>>, Content |-> ""]

\* no tool call has returned since the last one started
NoOutput ==
    [tool |-> "none", Path |-> <<>>, Success |-> FALSE, Content |-> "",
     Error |-> ""]

\* a *FileWriteOutput (Content is not a field of it and stays empty)
FileWriteOutput(path, success, error) ==
    [tool |-> "fileWrite", Path |-> path, Success |-> success,
     Content |-> "", Error |-> error]

\* a *FileReadOutput (Success is not a field of it and stays false)
FileReadOutput(content, path, error) ==
    [tool |-> "fileRead", Path |-> path, Success |-> FALSE,
     Content |-> content, Error |-> error]

\* the tools before their first call, in a working directory without files
InitTools ==
    /\ dirs = Ancestors(Getwd)
    /\ files = NoFiles
    /\ ops = 0
    /\ tpc = "idle"
    /\ input = NoInput
    /\ resolvedPath = <<>>
    /\ writeErr = "nil"
    /\ output = NoOutput
    /\ pending = {}
    /\ before = NoFiles
    /\ lastOk = NoFiles

-----------------------------------------------------------------------------
(* The state after NewModel and before the iterator function runs *)

\* the baseModel of both generators (options: make(map[string]interface{}))
BaseModel ==
    [name |-> "test-model", baseURL |-> "http://localhost:11434",
     options |-> <<>>]

\* the *Config the modelled handle was built from
TestConfig ==
    <<[ModelName |-> "test-model", BaseURL |-> "http://localhost:11434",
       Options |-> <<>>]>>

Init ==
    /\ InitTools
    /\ prev = {}
    /\ cfg = TestConfig
    /\ newErr = "nil"
    /\ config = <<>>
    /\ g = BaseModel
    /\ stream \in BOOLEAN
    /\ req \in Requests
    /\ ctxErr \in BOOLEAN
    /\ pc = "start"
    /\ chatReq = <<>>
    /\ chatCalls = 0
    /\ response = ZeroChatResponse
    /\ chunkCount = 0
    /\ lastResponse = <<>>
    /\ err = "nil"
    /\ delivered = <<>>
    /\ emitted = <<>>
    /\ stoppedAt = 0

-----------------------------------------------------------------------------
(* NewModel, NewSyncModel, NewStreamModel: all three return what           *)
(* newBaseModel returns                                                    *)

\* the base URL used when cfg.BaseURL is empty
DefaultBaseURL == "http://localhost:11434"

\* the base URLs of the modelled configs that url.Parse rejects
MalformedURLs == {"://invalid-url"}

\* the *Config values handed to the constructors (<<>> is the nil config)
Configs ==
    { <<>>,
      <<[ModelName |-> "", BaseURL |-> "http://localhost:11434",
         Options |-> <<>>]>>,
      <<[ModelName |-> "llama3.2", BaseURL |-> "://invalid-url",
         Options |-> <<>>]>>,
      <<[ModelName |-> "llama3.2", BaseURL |-> "", Options |-> <<>>]>>,
      <<[ModelName |-> "llama3.2", BaseURL |-> "http://localhost:11434",
         Options |-> <<>>]>>,
      <<[ModelName |-> "llama3.2", BaseURL |-> "http://ollama:11434",
         Options |-> << <<"temperature", 7>> >>]>> }

\* the zero value of baseModel: no handle has been built
ZeroBaseModel == [name |-> "", baseURL |-> "", options |-> <<>>]

\* newBaseModel without the check of cfg.ModelName
newBaseModelNoNameCheck(c) ==
    IF c = <<>>
    THEN [base |-> <<>>, err |-> "config cannot be nil"]
    ELSE LET baseURL == IF c[1].BaseURL = "" THEN DefaultBaseURL
                        ELSE c[1].BaseURL
         IN  IF baseURL \in MalformedURLs
             THEN [base |-> <<>>, err |-> "invalid base URL: " \o baseURL]
             ELSE [base |-> <<[name |-> c[1].ModelName,
                               baseURL |-> baseURL,
                               options |-> c[1].Options]>>,
                   err |-> "nil"]

\* newBaseModel: the (*baseModel, error) pair returned for the config c
newBaseModel(c) ==
    IF c = <<>>
    THEN [base |-> <<>>, err |-> "config cannot be nil"]
    ELSE IF c[1].ModelName = ""
    THEN [base |-> <<>>, err |-> "model name is required"]
    ELSE LET baseURL == IF c[1].BaseURL = "" THEN DefaultBaseURL
                        ELSE c[1].BaseURL
         IN  IF baseURL \in MalformedURLs
             THEN [base |-> <<>>, err |-> "invalid base URL: " \o baseURL]
             ELSE [base |-> <<[name |-> c[1].ModelName,
                               baseURL |-> baseURL,
                               options |-> c[1].Options]>>,
                   err |-> "nil"]

\* the constructor runs: on an error no handle is returned and no generate
\* call can follow, otherwise the generators hold a copy of the base model
NewModel ==
    /\ pc = "new"
    /\ LET r == newBaseModel(cfg)
       IN  IF r.err # "nil"
           THEN /\ newErr' = r.err
                /\ pc' = "failed"
                /\ UNCHANGED g
           ELSE /\ g' = r.base[1]
                /\ pc' = "start"
                /\ UNCHANGED newErr
    /\ UNCHANGED <<toolVars, prev, cfg, config, stream, req, ctxErr, chatReq, chatCalls,
                   response, chunkCount, lastResponse, err, delivered,
                   emitted, stoppedAt>>

-----------------------------------------------------------------------------
(* The call's context *)

\* the caller cancels ctx (or its deadline passes) while the call runs
Cancel ==
    /\ pc # "done"
    /\ ~ctxErr
    /\ ctxErr' = TRUE
    /\ UNCHANGED <<toolVars, prev, cfg, newErr, config, g, stream, req, pc, chatReq, chatCalls, response,
                   chunkCount, lastResponse, err, delivered, emitted,
                   stoppedAt>>

-----------------------------------------------------------------------------
(* SyncGenerator.generate *)

\* SyncStart without the pre-check of ctx.Err()
SyncStartNoPreCheck ==
    /\ pc = "start"
    /\ ~stream
    /\ chatReq' = <<[Model |-> g.name,
                     Messages |-> convertContentsToMessages(req),
                     Options |-> g.options,
                     Stream |-> FALSE]>>
    /\ chatCalls' = chatCalls + 1
    /\ pc' = "chat"
    /\ UNCHANGED <<toolVars, prev, cfg, newErr, config, g, stream, req, ctxErr, response, chunkCount,
                   lastResponse, err, delivered, emitted, stoppedAt>>

\* SyncStart storing the stream option of the call in the options of the
\* handle
SyncStartWritesOptions ==
    /\ pc = "start"
    /\ ~stream
    /\ IF ctxErr
       THEN /\ pc' = "done"
            /\ UNCHANGED <<g, chatReq, chatCalls>>
       ELSE /\ g' = [g EXCEPT !.options =
                        IF \E i \in 1..Len(@) : @[i][1] = "stream" THEN @
                        ELSE Append(@, <<"stream", 0>>)]
            /\ chatReq' = <<[Model |-> g.name,
                             Messages |-> convertContentsToMessages(req),
                             Options |-> g'.options,
                             Stream |-> FALSE]>>
            /\ chatCalls' = chatCalls + 1
            /\ pc' = "chat"
    /\ UNCHANGED <<toolVars, prev, cfg, newErr, config, stream, req, ctxErr, response,
                   chunkCount, lastResponse, err, delivered, emitted, stoppedAt>>

\* the pre-check, the conversion of the contents and the call of client.Chat
SyncStart ==
    /\ pc = "start"
    /\ ~stream
    /\ IF ctxErr
       THEN /\ pc' = "done"
            /\ UNCHANGED <<chatReq, chatCalls>>
       ELSE /\ chatReq' = <<[Model |-> g.name,
                             Messages |-> convertContentsToMessages(req),
                             Options |-> g.options,
                             Stream |-> FALSE]>>
            /\ chatCalls' = chatCalls + 1
            /\ pc' = "chat"
    /\ UNCHANGED <<toolVars, prev, cfg, newErr, config, g, stream, req, ctxErr, response, chunkCount,
                   lastResponse, err, delivered, emitted, stoppedAt>>

\* SyncCallback yielding every chunk it is handed, as the streaming callback
SyncCallbackYields(resp) ==
    /\ pc = "chat"
    /\ ~stream
    /\ Len(delivered) < MaxChunks
    /\ delivered' = Append(delivered, resp)
    /\ response' = resp
    /\ emitted' = Append(emitted,
           [resp |-> <<convertChatResponseToLLMResponse(resp)>>,
            err |-> "nil"])
    /\ UNCHANGED <<toolVars, prev, cfg, newErr, config, g, stream, req, ctxErr, pc, chatReq, chatCalls,
                   chunkCount, lastResponse, err, stoppedAt>>

\* SyncCallback keeping the first chunk it is handed instead of the last
SyncCallbackKeepsFirst(resp) ==
    /\ pc = "chat"
    /\ ~stream
    /\ Len(delivered) < MaxChunks
    /\ delivered' = Append(delivered, resp)
    /\ response' = IF delivered = <<>> THEN resp ELSE response
    /\ UNCHANGED <<toolVars, prev, cfg, newErr, config, g, stream, req, ctxErr, pc, chatReq, chatCalls,
                   chunkCount, lastResponse, err, emitted, stoppedAt>>

\* the backend hands resp to the collector callback, which keeps it and
\* returns nil
SyncCallback(resp) ==
    /\ pc = "chat"
    /\ ~stream
    /\ Len(delivered) < MaxChunks
    /\ delivered' = Append(delivered, resp)
    /\ response' = resp
    /\ UNCHANGED <<toolVars, prev, cfg, newErr, config, g, stream, req, ctxErr, pc, chatReq, chatCalls,
                   chunkCount, lastResponse, err, emitted, stoppedAt>>

\* the element yielded once client.Chat has returned in sync mode
SyncResult ==
    IF err # "nil"
    THEN [resp |-> <<>>, err |-> "ollama chat failed: " \o err]
    ELSE [resp |-> <<convertChatResponseToLLMResponse(response)>>,
          err |-> "nil"]

\* SyncAfterChat calling client.Chat again after an error (up to two retries)
SyncAfterChatRetries ==
    /\ pc = "afterChat"
    /\ ~stream
    /\ IF err # "nil" /\ ctxErr
       THEN /\ pc' = "done"
            /\ UNCHANGED <<emitted, chatCalls, err>>
       ELSE IF err # "nil" /\ chatCalls < 3
       THEN /\ chatCalls' = chatCalls + 1
            /\ err' = "nil"
            /\ pc' = "chat"
            /\ UNCHANGED emitted
       ELSE /\ emitted' = Append(emitted, SyncResult)
            /\ pc' = "yieldLast"
            /\ UNCHANGED <<chatCalls, err>>
    /\ UNCHANGED <<toolVars, prev, cfg, newErr, config, g, stream, req, ctxErr, chatReq,
                   response, chunkCount, lastResponse, delivered, stoppedAt>>

\* SyncAfterChat returning on an error without yielding it
SyncAfterChatSwallowsError ==
    /\ pc = "afterChat"
    /\ ~stream
    /\ IF err # "nil"
       THEN /\ pc' = "done"
            /\ UNCHANGED emitted
       ELSE /\ emitted' = Append(emitted, SyncResult)
            /\ pc' = "yieldLast"
    /\ UNCHANGED <<toolVars, prev, cfg, newErr, config, g, stream, req, ctxErr, chatReq, chatCalls, response,
                   chunkCount, lastResponse, err, delivered, stoppedAt>>

\* SyncAfterChat yielding the error without looking at ctx.Err()
SyncAfterChatNoCtxCheck ==
    /\ pc = "afterChat"
    /\ ~stream
    /\ emitted' = Append(emitted, SyncResult)
    /\ pc' = "yieldLast"
    /\ UNCHANGED <<toolVars, prev, cfg, newErr, config, g, stream, req, ctxErr, chatReq, chatCalls, response,
                   chunkCount, lastResponse, err, delivered, stoppedAt>>

\* SyncAfterChat without the return after the yield of the error: the
\* converted response is yielded as well
SyncAfterChatNoReturn ==
    /\ pc = "afterChat"
    /\ ~stream
    /\ IF err # "nil" /\ ctxErr
       THEN /\ pc' = "done"
            /\ UNCHANGED emitted
       ELSE /\ emitted' =
                 IF err # "nil"
                 THEN emitted \o
                      <<SyncResult,
                        [resp |-> <<convertChatResponseToLLMResponse(response)>>,
                         err |-> "nil"]>>
                 ELSE Append(emitted, SyncResult)
            /\ pc' = "yieldLast"
    /\ UNCHANGED <<toolVars, prev, cfg, newErr, config, g, stream, req, ctxErr, chatReq, chatCalls, response,
                   chunkCount, lastResponse, err, delivered, stoppedAt>>

\* SyncAfterChat deciding by the kind of the error instead of ctx.Err(): a
\* context.Canceled error is dropped, every other error is yielded
SyncAfterChatChecksErrorKind ==
    /\ pc = "afterChat"
    /\ ~stream
    /\ IF err = "context canceled"
       THEN /\ pc' = "done"
            /\ UNCHANGED emitted
       ELSE /\ emitted' = Append(emitted, SyncResult)
            /\ pc' = "yieldLast"
    /\ UNCHANGED <<toolVars, prev, cfg, newErr, config, g, stream, req, ctxErr, chatReq, chatCalls, response,
                   chunkCount, lastResponse, err, delivered, stoppedAt>>

\* SyncAfterChat yielding nothing when the collector still holds the zero
\* response
SyncAfterChatSkipsEmpty ==
    /\ pc = "afterChat"
    /\ ~stream
    /\ IF (err # "nil" /\ ctxErr) \/ (err = "nil" /\ response = ZeroChatResponse)
       THEN /\ pc' = "done"
            /\ UNCHANGED emitted
       ELSE /\ emitted' = Append(emitted, SyncResult)
            /\ pc' = "yieldLast"
    /\ UNCHANGED <<toolVars, prev, cfg, newErr, config, g, stream, req, ctxErr, chatReq, chatCalls, response,
                   chunkCount, lastResponse, err, delivered, stoppedAt>>

\* the code after client.Chat returned, up to the call of yield
SyncAfterChat ==
    /\ pc = "afterChat"
    /\ ~stream
    /\ IF err # "nil" /\ ctxErr
       THEN /\ pc' = "done"
            /\ UNCHANGED emitted
       ELSE /\ emitted' = Append(emitted, SyncResult)
            /\ pc' = "yieldLast"
    /\ UNCHANGED <<toolVars, prev, cfg, newErr, config, g, stream, req, ctxErr, chatReq, chatCalls, response,
                   chunkCount, lastResponse, err, delivered, stoppedAt>>

-----------------------------------------------------------------------------
(* StreamGenerator.generate *)

\* StreamStart normalizing the roles in place, in the contents of the request
StreamStartRewritesRoles ==
    /\ pc = "start"
    /\ stream
    /\ IF ctxErr
       THEN /\ pc' = "done"
            /\ UNCHANGED <<req, chatReq, chatCalls>>
       ELSE /\ req' = [i \in 1..Len(req) |->
                        IF req[i] = <<>> THEN <<>>
                        ELSE <<[req[i][1] EXCEPT !.Role = MessageRole(@)]>>]
            /\ chatReq' = <<[Model |-> g.name,
                             Messages |-> convertContentsToMessages(req),
                             Options |-> g.options,
                             Stream |-> TRUE]>>
            /\ chatCalls' = chatCalls + 1
            /\ pc' = "chat"
    /\ UNCHANGED <<toolVars, prev, cfg, newErr, config, g, stream, ctxErr, response,
                   chunkCount, lastResponse, err, delivered, emitted, stoppedAt>>

\* the pre-check, the conversion of the contents and the call of client.Chat
StreamStart ==
    /\ pc = "start"
    /\ stream
    /\ IF ctxErr
       THEN /\ pc' = "done"
            /\ UNCHANGED <<chatReq, chatCalls>>
       ELSE /\ chatReq' = <<[Model |-> g.name,
                             Messages |-> convertContentsToMessages(req),
                             Options |-> g.options,
                             Stream |-> TRUE]>>
            /\ chatCalls' = chatCalls + 1
            /\ pc' = "chat"
    /\ UNCHANGED <<toolVars, prev, cfg, newErr, config, g, stream, req, ctxErr, response, chunkCount,
                   lastResponse, err, delivered, emitted, stoppedAt>>

\* StreamResponse without the assignments of Partial and TurnComplete
StreamResponseNoFlags(resp) == convertChatResponseToLLMResponse(resp)

\* the response the chunk callback yields for resp
StreamResponse(resp) ==
    [convertChatResponseToLLMResponse(resp) EXCEPT
        !.Partial = ~resp.Done, !.TurnComplete = resp.Done]

\* StreamCallback without the select on ctx.Done()
StreamCallbackNoCtxCheck(resp) ==
    /\ pc = "chat"
    /\ stream
    /\ Len(delivered) < MaxChunks
    /\ delivered' = Append(delivered, resp)
    /\ chunkCount' = chunkCount + 1
    /\ lastResponse' = <<resp>>
    /\ emitted' = Append(emitted,
           [resp |-> <<StreamResponse(resp)>>, err |-> "nil"])
    /\ pc' = "yield"
    /\ UNCHANGED <<toolVars, prev, cfg, newErr, config, g, stream, req, ctxErr, chatReq, chatCalls, response,
                   err, stoppedAt>>

\* the backend hands resp to the chunk callback: with ctx done the callback
\* returns ctx.Err() and the backend call ends with that error; otherwise
\* the callback counts the chunk, converts it and calls yield
StreamCallback(resp) ==
    /\ pc = "chat"
    /\ stream
    /\ Len(delivered) < MaxChunks
    /\ delivered' = Append(delivered, resp)
    /\ IF ctxErr
       THEN /\ err' = "context canceled"
            /\ pc' = "afterChat"
            /\ UNCHANGED <<chunkCount, lastResponse, emitted>>
       ELSE /\ chunkCount' = chunkCount + 1
            /\ lastResponse' = <<resp>>
            /\ emitted' = Append(emitted,
                   [resp |-> <<StreamResponse(resp)>>, err |-> "nil"])
            /\ pc' = "yield"
            /\ UNCHANGED err
    /\ UNCHANGED <<toolVars, prev, cfg, newErr, config, g, stream, req, ctxErr, chatReq, chatCalls, response,
                   stoppedAt>>

\* yield returns to the chunk callback: true lets the backend go on, false
\* makes the callback return "consumer stopped", which ends the backend call
YieldReturn(more) ==
    /\ pc = "yield"
    /\ IF more
       THEN /\ pc' = "chat"
            /\ UNCHANGED <<err, stoppedAt>>
       ELSE /\ stoppedAt' = Len(emitted)
            /\ err' = "consumer stopped"
            /\ pc' = "afterChat"
    /\ UNCHANGED <<toolVars, prev, cfg, newErr, config, g, stream, req, ctxErr, chatReq, chatCalls, response,
                   chunkCount, lastResponse, delivered, emitted>>

\* StreamAfterChat returning on an error without yielding it
StreamAfterChatSwallowsError ==
    /\ pc = "afterChat"
    /\ stream
    /\ pc' = "done"
    /\ UNCHANGED <<toolVars, prev, cfg, newErr, config, g, stream, req, ctxErr, chatReq, chatCalls, response,
                   chunkCount, lastResponse, err, delivered, emitted,
                   stoppedAt>>

\* StreamAfterChat closing the turn itself: after a backend call that
\* succeeded without a chunk with Done = true it yields a final response
\* made from the last chunk
StreamAfterChatSynthesizesFinal ==
    /\ pc = "afterChat"
    /\ stream
    /\ IF err # "nil" /\ ~ctxErr
       THEN /\ emitted' = Append(emitted,
                   [resp |-> <<>>, err |-> "ollama streaming failed: " \o err])
            /\ pc' = "yieldLast"
       ELSE IF err = "nil" /\ lastResponse # <<>> /\ ~lastResponse[1].Done
       THEN /\ emitted' = Append(emitted,
                   [resp |-> <<[StreamResponse(lastResponse[1]) EXCEPT
                                  !.Partial = FALSE, !.TurnComplete = TRUE]>>,
                    err |-> "nil"])
            /\ pc' = "yieldLast"
       ELSE /\ pc' = "done"
            /\ UNCHANGED emitted
    /\ UNCHANGED <<toolVars, prev, cfg, newErr, config, g, stream, req, ctxErr, chatReq, chatCalls, response,
                   chunkCount, lastResponse, err, delivered, stoppedAt>>

\* StreamAfterChat yielding the error without looking at ctx.Err()
StreamAfterChatNoCtxCheck ==
    /\ pc = "afterChat"
    /\ stream
    /\ IF err # "nil"
       THEN /\ emitted' = Append(emitted,
                   [resp |-> <<>>, err |-> "ollama streaming failed: " \o err])
            /\ pc' = "yieldLast"
       ELSE /\ pc' = "done"
            /\ UNCHANGED emitted
    /\ UNCHANGED <<toolVars, prev, cfg, newErr, config, g, stream, req, ctxErr, chatReq, chatCalls, response,
                   chunkCount, lastResponse, err, delivered, stoppedAt>>

\* the code after client.Chat returned, up to the call of yield or the end
StreamAfterChat ==
    /\ pc = "afterChat"
    /\ stream
    /\ IF err # "nil" /\ ~ctxErr
       THEN /\ emitted' = Append(emitted,
                   [resp |-> <<>>, err |-> "ollama streaming failed: " \o err])
            /\ pc' = "yieldLast"
       ELSE /\ pc' = "done"
            /\ UNCHANGED emitted
    /\ UNCHANGED <<toolVars, prev, cfg, newErr, config, g, stream, req, ctxErr, chatReq, chatCalls, response,
                   chunkCount, lastResponse, err, delivered, stoppedAt>>

-----------------------------------------------------------------------------
(* The backend and the consumer *)

\* client.Chat returns on its own, with nil or with an error of the backend
ChatReturn(e) ==
    /\ pc = "chat"
    /\ err' = e
    /\ pc' = "afterChat"
    /\ UNCHANGED <<toolVars, prev, cfg, newErr, config, g, stream, req, ctxErr, chatReq, chatCalls, response,
                   chunkCount, lastResponse, delivered, emitted, stoppedAt>>

\* the last yield of the call returns; its result is ignored and the
\* iterator function returns
LastYieldReturn ==
    /\ pc = "yieldLast"
    /\ pc' = "done"
    /\ UNCHANGED <<toolVars, prev, cfg, newErr, config, g, stream, req, ctxErr, chatReq, chatCalls, response,
                   chunkCount, lastResponse, err, delivered, emitted,
                   stoppedAt>>

Next ==
    \/ Cancel
    \/ SyncStart
    \/ \E resp \in Chunks : SyncCallback(resp)
    \/ SyncAfterChat
    \/ StreamStart
    \/ \E resp \in Chunks : StreamCallback(resp)
    \/ \E more \in BOOLEAN : YieldReturn(more)
    \/ StreamAfterChat
    \/ \E e \in {"nil"} \cup BackendErrors : ChatReturn(e)
    \/ LastYieldReturn

Spec == Init /\ [][Next]_vars

-----------------------------------------------------------------------------
(* Construction followed by one call: the configs of Configs *)

InitNew ==
    /\ InitTools
    /\ prev = {}
    /\ cfg \in Configs
    /\ newErr = "nil"
    /\ config = <<>>
    /\ g = ZeroBaseModel
    /\ stream \in BOOLEAN
    /\ req = <<Content("user", <<TextPart("Hello")>>)>>
    /\ ctxErr \in BOOLEAN
    /\ pc = "new"
    /\ chatReq = <<>>
    /\ chatCalls = 0
    /\ response = ZeroChatResponse
    /\ chunkCount = 0
    /\ lastResponse = <<>>
    /\ err = "nil"
    /\ delivered = <<>>
    /\ emitted = <<>>
    /\ stoppedAt = 0

NextNew ==
    \/ NewModel
    \/ Next

SpecNew == InitNew /\ [][NextNew]_vars

-----------------------------------------------------------------------------
(* The request handed to the backend: the start of a call for the requests *)
(* of NormRequests and the generation configs of GenConfigs                *)

\* a request has at most this many contents
MaxTurns == 2

\* the roles of the modelled contents
NormRoles == {"", "user", "model", "assistant", "system", "tool"}

\* the part lists of the modelled contents: texts, a nil part, inline data
\* and function calls, alone and together with text
NormParts ==
    { <<>>,
      <<TextPart("Hello")>>,
      << TextPart("a"), <<>>,
         <<[Text |-> "", InlineData |-> <<[MIMEType |-> "image/png"]>>,
            FunctionCall |-> <<>>]>>,
         TextPart("b") >>,
      << <<[Text |-> "call ", InlineData |-> <<>>,
            FunctionCall |-> <<[Name |-> "fileRead"]>>]>>,
         TextPart("!") >>,
      << <<[Text |-> "t", InlineData |-> <<[MIMEType |-> "image/png"]>>,
            FunctionCall |-> <<[Name |-> "f"]>>]>> >> }

\* the elements of req.Contents: nil or a content
NormContents ==
    {<<>>} \cup { Content(r, p) : r \in NormRoles, p \in NormParts }

\* the req.Contents values: every list of at most MaxTurns elements
NormRequests == UNION { [1..n -> NormContents] : n \in 0..MaxTurns }

\* the req.Config values: nil, no field, some fields, every field
\* (Temperature and TopP in tenths)
GenConfigs ==
    { <<>>,
      <<[Temperature |-> <<>>, TopP |-> <<>>, MaxOutputTokens |-> <<>>]>>,
      <<[Temperature |-> <<7>>, TopP |-> <<>>, MaxOutputTokens |-> <<500>>]>>,
      <<[Temperature |-> <<7>>, TopP |-> <<9>>, MaxOutputTokens |-> <<500>>]>> }

InitNorm ==
    /\ InitTools
    /\ prev = {}
    /\ cfg = TestConfig
    /\ newErr = "nil"
    /\ config \in GenConfigs
    /\ g = BaseModel
    /\ stream \in BOOLEAN
    /\ req \in NormRequests
    /\ ctxErr \in BOOLEAN
    /\ pc = "start"
    /\ chatReq = <<>>
    /\ chatCalls = 0
    /\ response = ZeroChatResponse
    /\ chunkCount = 0
    /\ lastResponse = <<>>
    /\ err = "nil"
    /\ delivered = <<>>
    /\ emitted = <<>>
    /\ stoppedAt = 0

NextNorm ==
    \/ SyncStart
    \/ StreamStart

SpecNorm == InitNorm /\ [][NextNorm]_vars

-----------------------------------------------------------------------------
(* The conversion of the backend's response: a sync call whose backend     *)
(* call has returned nil after delivering one chunk of ConvInputs          *)

\* the PromptEvalCount and EvalCount values of the modelled chunks
ConvCounts == {-1, 0, 1, MaxInt32}

\* the modelled chunks
ConvInputs ==
    { [Message |-> [Role |-> "assistant", Content |-> t], Done |-> d,
       PromptEvalCount |-> p, EvalCount |-> e] :
         t \in ChunkTexts \cup {""}, d \in BOOLEAN,
         p \in ConvCounts, e \in ConvCounts }

InitConv ==
    /\ InitTools
    /\ prev = {}
    /\ cfg = TestConfig
    /\ newErr = "nil"
    /\ config = <<>>
    /\ g = BaseModel
    /\ stream = FALSE
    /\ req = <<Content("user", <<TextPart("Hello")>>)>>
    /\ ctxErr = FALSE
    /\ pc = "afterChat"
    /\ chatReq = <<[Model |-> g.name,
                    Messages |-> convertContentsToMessages(req),
                    Options |-> g.options,
                    Stream |-> FALSE]>>
    /\ chatCalls = 1
    /\ response \in ConvInputs
    /\ chunkCount = 0
    /\ lastResponse = <<>>
    /\ err = "nil"
    /\ delivered = <<response>>
    /\ emitted = <<>>
    /\ stoppedAt = 0

NextConv ==
    \/ SyncAfterChat
    \/ LastYieldReturn

SpecConv == InitConv /\ [][NextConv]_vars

-----------------------------------------------------------------------------
(* Several calls on one handle: once a call has finished, GenerateContent  *)
(* is called again.  The backend delivers the chunks of CallChunks.        *)

\* the chunks the backend delivers to the calls that share the handle
CallChunks ==
    { [Message |-> [Role |-> "assistant", Content |-> "Hel"], Done |-> FALSE,
       PromptEvalCount |-> 0, EvalCount |-> 0],
      [Message |-> [Role |-> "assistant", Content |-> "lo"], Done |-> TRUE,
       PromptEvalCount |-> 3, EvalCount |-> 2] }

\* Model.Name
Name == g.name

\* Model.GenerateContent on the handle that served the finished call: a new
\* run of the iterator function, with its own locals
GenerateContent(r, s, c) ==
    /\ pc = "done"
    /\ prev' = IF chatReq = <<>> THEN prev
               ELSE prev \cup {[req |-> req,
                                messages |-> chatReq[1].Messages]}
    /\ req' = r
    /\ stream' = s
    /\ ctxErr' = c
    /\ pc' = "start"
    /\ chatReq' = <<>>
    /\ chatCalls' = 0
    /\ response' = ZeroChatResponse
    /\ chunkCount' = 0
    /\ lastResponse' = <<>>
    /\ err' = "nil"
    /\ delivered' = <<>>
    /\ emitted' = <<>>
    /\ stoppedAt' = 0
    /\ UNCHANGED <<toolVars, cfg, newErr, config, g>>

NextCalls ==
    \/ Cancel
    \/ SyncStart
    \/ \E resp \in CallChunks : SyncCallback(resp)
    \/ SyncAfterChat
    \/ StreamStart
    \/ \E resp \in CallChunks : StreamCallback(resp)
    \/ \E more \in BOOLEAN : YieldReturn(more)
    \/ StreamAfterChat
    \/ \E e \in {"nil"} \cup BackendErrors : ChatReturn(e)
    \/ LastYieldReturn
    \/ \E r \in Requests, s \in BOOLEAN, c \in BOOLEAN :
          GenerateContent(r, s, c)

SpecCalls == Init /\ [][NextCalls]_vars

-----------------------------------------------------------------------------
(* One call under fair scheduling.  The iterator function takes its own    *)
(* steps when it can, and client.Chat, which is handed ctx, returns once   *)
(* ctx is done.  Nothing makes the consumer return from yield.             *)

\* client.Chat(ctx, ...) returns because ctx is done
ChatReturnsOnCancel ==
    /\ ctxErr
    /\ \E e \in {"nil"} \cup BackendErrors : ChatReturn(e)

NextLive ==
    \/ Cancel
    \/ SyncStart
    \/ \E resp \in CallChunks : SyncCallback(resp)
    \/ SyncAfterChat
    \/ StreamStart
    \/ \E resp \in CallChunks : StreamCallback(resp)
    \/ \E more \in BOOLEAN : YieldReturn(more)
    \/ StreamAfterChat
    \/ \E e \in {"nil"} \cup BackendErrors : ChatReturn(e)
    \/ LastYieldReturn

SpecLive ==
    /\ Init
    /\ [][NextLive]_vars
    /\ WF_vars(SyncStart)
    /\ WF_vars(StreamStart)
    /\ WF_vars(SyncAfterChat)
    /\ WF_vars(StreamAfterChat)
    /\ WF_vars(ChatReturnsOnCancel)

-----------------------------------------------------------------------------
(* The file tools fileRead and fileWrite of one workspace.  The tools'     *)
(* calls run one after the other; the writer goroutine of a fileWrite call *)
(* that timed out keeps running beside the calls that follow.              *)

\* the directories after resolveWorkspacePath ran: it creates the workspace
\* directory unless it rejected an absolute path before
DirsResolved(r) ==
    IF r.err = "absolute paths are not allowed" THEN dirs
    ELSE MkdirAll(dirs, Abs(DefaultWorkspaceDir))

\* the fileRead handler for the path p; timedOut tells whether the read
\* takes longer than FileOperationTimeout
FileRead(p, timedOut) ==
    /\ tpc = "idle"
    /\ ops < MaxOps
    /\ ops' = ops + 1
    /\ input' = [Path |-> p, Content |-> ""]
    /\ LET r == resolveWorkspacePath(DefaultWorkspaceDir, p)
           ds == DirsResolved(r)
       IN  /\ dirs' = ds
           /\ resolvedPath' = r.path
           /\ output' =
                IF r.err # "nil"
                THEN FileReadOutput("", <<>>, "Failed to resolve path: " \o r.err)
                ELSE IF r.path \notin DOMAIN files /\ r.path \notin ds
                THEN FileReadOutput("", <<>>, "Failed to stat file")
                ELSE IF r.path \in DOMAIN files
                        /\ len(files[r.path]) > MaxFileSize
                THEN FileReadOutput("", <<>>, "File too large")
                ELSE IF timedOut
                THEN FileReadOutput("", <<>>, "File read timeout exceeded")
                ELSE IF r.path \in ds
                THEN FileReadOutput("", <<>>, "Failed to read file")
                ELSE FileReadOutput(files[r.path], p, "")
    /\ UNCHANGED <<genVars, files, tpc, writeErr, pending, before, lastOk>>

\* the fileWrite handler up to the start of its writer goroutine: the size
\* check, the resolution of the path and the creation of the directory
FileWriteStart(in) ==
    /\ tpc = "idle"
    /\ ops < MaxOps
    /\ ops' = ops + 1
    /\ input' = in
    /\ before' = files
    /\ writeErr' = "nil"
    /\ IF len(in.Content) > MaxFileSize
       THEN /\ output' = FileWriteOutput(<<>>, FALSE, "Content too large")
            /\ resolvedPath' = <<>>
            /\ UNCHANGED <<dirs, tpc>>
       ELSE LET r == resolveWorkspacePath(DefaultWorkspaceDir, in.Path)
                ds == DirsResolved(r)
            IN  IF r.err # "nil"
                THEN /\ output' = FileWriteOutput(<<>>, FALSE,
                                      "Failed to resolve path: " \o r.err)
                     /\ resolvedPath' = <<>>
                     /\ dirs' = ds
                     /\ UNCHANGED tpc
                ELSE IF MkdirAllFails(files, Dir(r.path))
                THEN /\ output' = FileWriteOutput(<<>>, FALSE,
                                      "Failed to create directory")
                     /\ resolvedPath' = r.path
                     /\ dirs' = ds
                     /\ UNCHANGED tpc
                ELSE /\ output' = NoOutput
                     /\ resolvedPath' = r.path
                     /\ dirs' = MkdirAll(ds, Dir(r.path))
                     /\ tpc' = "writing"
    /\ UNCHANGED <<genVars, files, pending, lastOk>>

\* the writer goroutine of the running call: os.WriteFile, then close(done)
GoWriteFile ==
    /\ tpc = "writing"
    /\ writeErr' = WriteFileErr(dirs, resolvedPath)
    /\ files' = IF WriteFileErr(dirs, resolvedPath) = "nil"
                THEN WriteFile(files, resolvedPath, input.Content)
                ELSE files
    /\ tpc' = "written"
    /\ UNCHANGED <<genVars, dirs, ops, input, resolvedPath, output, pending,
                   before, lastOk>>

\* the select of fileWrite takes the case <-done
SelectDone ==
    /\ tpc = "written"
    /\ output' = IF writeErr # "nil"
                 THEN FileWriteOutput(<<>>, FALSE,
                          "Failed to write file: " \o writeErr)
                 ELSE FileWriteOutput(input.Path, TRUE, "")
    /\ lastOk' = IF writeErr # "nil" THEN lastOk
                 ELSE WriteFile(lastOk, resolvedPath, input.Content)
    /\ tpc' = "idle"
    /\ UNCHANGED <<genVars, dirs, files, ops, input, resolvedPath, writeErr,
                   pending, before>>

\* the select of fileWrite takes the case <-writeCtx.Done(), before or after
\* the writer goroutine closed done; a goroutine that has not written yet
\* is left running
SelectTimeout ==
    /\ tpc \in {"writing", "written"}
    /\ output' = FileWriteOutput(<<>>, FALSE, "File write timeout exceeded")
    /\ pending' = IF tpc = "written" THEN pending
                  ELSE pending \cup {[path |-> resolvedPath,
                                      content |-> input.Content]}
    /\ tpc' = "idle"
    /\ UNCHANGED <<genVars, dirs, files, ops, input, resolvedPath, writeErr,
                   before, lastOk>>

\* a writer goroutine left running by a call that timed out: os.WriteFile
PendingWrite(w) ==
    /\ w \in pending
    /\ files' = IF WriteFileErr(dirs, w.path) = "nil"
                THEN WriteFile(files, w.path, w.content)
                ELSE files
    /\ pending' = pending \ {w}
    /\ UNCHANGED <<genVars, dirs, ops, tpc, input, resolvedPath, writeErr,
                   output, before, lastOk>>

\* no generate call runs beside the tools
InitFiles ==
    /\ InitTools
    /\ prev = {}
    /\ cfg = TestConfig
    /\ newErr = "nil"
    /\ config = <<>>
    /\ g = BaseModel
    /\ stream = FALSE
    /\ req = <<>>
    /\ ctxErr = FALSE
    /\ pc = "done"
    /\ chatReq = <<>>
    /\ chatCalls = 0
    /\ response = ZeroChatResponse
    /\ chunkCount = 0
    /\ lastResponse = <<>>
    /\ err = "nil"
    /\ delivered = <<>>
    /\ emitted = <<>>
    /\ stoppedAt = 0

NextFiles ==
    \/ \E p \in ToolPaths, timedOut \in BOOLEAN : FileRead(p, timedOut)
    \/ \E p \in ToolPaths, c \in Contents :
          FileWriteStart([Path |-> p, Content |-> c])
    \/ GoWriteFile
    \/ SelectDone
    \/ SelectTimeout
    \/ \E w \in pending : PendingWrite(w)

SpecFiles == InitFiles /\ [][NextFiles]_vars

\* the user paths of up to MaxPathLen components
PathInputs ==
    UNION { [1..n -> PathNames] : n \in 1..MaxPathLen }

\* path resolution alone: the tools are about to be called with a path of
\* PathInputs
InitPath ==
    /\ dirs = Ancestors(Getwd)
    /\ files = NoFiles
    /\ ops = 0
    /\ tpc = "idle"
    /\ input \in {[Path |-> p, Content |-> ""] : p \in PathInputs}
    /\ resolvedPath = <<>>
    /\ writeErr = "nil"
    /\ output = NoOutput
    /\ pending = {}
    /\ before = NoFiles
    /\ lastOk = NoFiles
    /\ prev = {}
    /\ cfg = TestConfig
    /\ newErr = "nil"
    /\ config = <<>>
    /\ g = BaseModel
    /\ stream = FALSE
    /\ req = <<>>
    /\ ctxErr = FALSE
    /\ pc = "done"
    /\ chatReq = <<>>
    /\ chatCalls = 0
    /\ response = ZeroChatResponse
    /\ chunkCount = 0
    /\ lastResponse = <<>>
    /\ err = "nil"
    /\ delivered = <<>>
    /\ emitted = <<>>
    /\ stoppedAt = 0

\* the first call is a fileRead of the path
NextPath ==
    \E timedOut \in BOOLEAN : ops = 0 /\ FileRead(input.Path, timedOut)

SpecPath == InitPath /\ [][NextPath]_vars

-----------------------------------------------------------------------------
(* Vocabulary of the properties *)

\* e is a yielded response: a non-nil response and a nil error
IsResponse(e) == e.resp # <<>> /\ e.err = "nil"

\* e is a yielded error: a nil response and a non-nil error
IsError(e) == e.resp = <<>> /\ e.err # "nil"

\* the text of the yielded response e
TextOf(e) == e.resp[1].Content[1].Parts[1].Text

\* s is an initial segment of t
IsPrefix(s, t) == Len(s) <= Len(t) /\ SubSeq(t, 1, Len(s)) = s

\* every chunk of s but the last has Done = false and the last has Done = true
OnlyLastFinal(s) ==
    /\ Len(s) >= 1
    /\ \A i \in 1..Len(s) : s[i].Done <=> (i = Len(s))

\* emitted starts with one response per chunk of s, in the order of s
ResponsesFollow(s) ==
    /\ Len(emitted) >= Len(s)
    /\ \A i \in 1..Len(s) :
          IsResponse(emitted[i]) /\ TextOf(emitted[i]) = s[i].Message.Content

-----------------------------------------------------------------------------
(* Properties *)

\* C1: a call whose context is already done when the iterator function
\* starts ends at once, in sync and in streaming mode, having yielded
\* neither a response nor an error.
C1_PreCancelledYieldsNothing ==
    [][(pc = "start" /\ ctxErr) => (pc' = "done" /\ emitted' = <<>>)]_vars

C1_Witness ==
    pc = "done" /\ ctxErr /\ chatCalls = 0 /\ emitted = <<>> /\ stream

\* C2: a streaming call that is never cancelled, whose consumer takes every
\* element and whose backend delivers N chunks of which only the last is
\* final and then returns nil, has yielded exactly N responses, the i-th
\* with the text of chunk i, the first N-1 with Partial and without
\* TurnComplete, the N-th with TurnComplete and without Partial.
C2_StreamingOrder ==
    (pc = "done" /\ stream /\ ~ctxErr /\ err = "nil" /\ stoppedAt = 0
        /\ OnlyLastFinal(delivered))
    => /\ Len(emitted) = Len(delivered)
       /\ ResponsesFollow(delivered)
       /\ \A i \in 1..Len(emitted) :
             /\ emitted[i].resp[1].Partial <=> (i < Len(emitted))
             /\ emitted[i].resp[1].TurnComplete <=> (i = Len(emitted))

C2_Witness ==
    /\ pc = "done" /\ stream /\ ~ctxErr /\ err = "nil" /\ stoppedAt = 0
    /\ OnlyLastFinal(delivered)
    /\ Len(delivered) = 3
    /\ delivered[1].Message.Content # delivered[2].Message.Content
    /\ Len(emitted) = 3

\* C3: a sync call that is not cancelled and whose backend call returns nil
\* has yielded, when it ends, exactly one element, a response, whatever the
\* number of chunks the backend handed to the collector.
C3_SyncSuccessOneResponse ==
    (pc = "done" /\ ~stream /\ ~ctxErr /\ chatCalls = 1 /\ err = "nil")
    => (Len(emitted) = 1 /\ IsResponse(emitted[1]))

C3_Witness ==
    /\ pc = "done" /\ ~stream /\ ~ctxErr /\ chatCalls = 1 /\ err = "nil"
    /\ Len(delivered) >= 2
    /\ Len(emitted) = 1

\* C4: the single response of a successful sync call has TurnComplete set
\* (isFinal) and Partial unset.
C4_SyncResponseIsFinal ==
    (pc = "done" /\ ~stream /\ ~ctxErr /\ chatCalls = 1 /\ err = "nil")
    => /\ Len(emitted) = 1
       /\ IsResponse(emitted[1])
       /\ emitted[1].resp[1].TurnComplete
       /\ ~emitted[1].resp[1].Partial

\* C5: a sync call that is not cancelled and whose backend call returns an
\* error has yielded, when it ends, exactly one element, an error.
C5_SyncFailureOneError ==
    (pc = "done" /\ ~stream /\ ~ctxErr /\ chatCalls = 1 /\ err # "nil")
    => (Len(emitted) = 1 /\ IsError(emitted[1]))

C5_Witness ==
    /\ pc = "done" /\ ~stream /\ ~ctxErr /\ chatCalls = 1
    /\ err = "mock API error"
    /\ Len(emitted) = 1 /\ IsError(emitted[1])

\* C6: a streaming call that is never cancelled, whose consumer never stops
\* and whose backend delivers k >= 0 chunks and then fails, has yielded the k
\* responses of those chunks in order and then exactly one error; what was
\* yielded is never taken back.
C6_StreamFailureAfterChunks ==
    /\ []((pc = "done" /\ stream /\ ~ctxErr /\ stoppedAt = 0 /\ err # "nil")
          => /\ Len(emitted) = Len(delivered) + 1
             /\ ResponsesFollow(delivered)
             /\ IsError(emitted[Len(emitted)]))
    /\ [][IsPrefix(emitted, emitted')]_vars

C6_Witness ==
    /\ pc = "done" /\ stream /\ ~ctxErr /\ stoppedAt = 0
    /\ err = "mock API error"
    /\ Len(delivered) = 2
    /\ Len(emitted) = 3 /\ IsError(emitted[3])

\* C7: in streaming mode nothing is yielded once the context is done: a
\* chunk the backend delivers then is not yielded, the callback returns an
\* error that ends the backend call, and no error element follows.
C7_NoEmissionAfterCancel ==
    [][(stream /\ ctxErr)
         => /\ emitted' = emitted
            /\ (delivered' # delivered => (err' # "nil" /\ pc' = "afterChat"))
      ]_vars

C7_Witness ==
    /\ pc = "done" /\ stream /\ ctxErr
    /\ err = "context canceled"
    /\ Len(emitted) >= 1
    /\ Len(delivered) = Len(emitted) + 1
    /\ \A i \in 1..Len(emitted) : IsResponse(emitted[i])

\* C8: in streaming mode, once yield has returned false the backend call is
\* over and yield is not called again, neither with a response nor with an
\* error, also when the context is not done.
C8_NoYieldAfterConsumerStop ==
    stoppedAt > 0 => (Len(emitted) = stoppedAt /\ pc # "chat")

\* C9: in both modes, when the backend call has returned an error and the
\* context is done at the check that follows, the call ends without
\* yielding the error.
C9_ErrorSuppressedWhenCancelled ==
    [][(pc = "afterChat" /\ err # "nil" /\ ctxErr)
         => (pc' = "done" /\ emitted' = emitted)]_vars

C9_Witness ==
    /\ pc = "done" /\ ~stream /\ ctxErr
    /\ err = "mock API error"
    /\ emitted = <<>>

\* C10: in every call every yielded element is either a response or an
\* error, an error is the last element yielded (so there is at most one and
\* nothing follows it), and a sync call yields at most one element; hence a
\* call ends cleanly (no error), with a failure before any output (one
\* error, no response) or truncated (responses, then one error).
C10_SingleTerminalError ==
    /\ \A i \in 1..Len(emitted) :
          /\ IsResponse(emitted[i]) \/ IsError(emitted[i])
          /\ IsError(emitted[i])
                => (i = Len(emitted) /\ pc \in {"yieldLast", "done"})
    /\ ~stream => Len(emitted) <= 1

C10_Witness ==
    /\ pc = "done" /\ stream
    /\ Len(emitted) = 2
    /\ IsResponse(emitted[1]) /\ IsError(emitted[2])

-----------------------------------------------------------------------------
(* Vocabulary of the properties about the request and the response *)

\* the messages of the request handed to client.Chat
Messages == chatReq[1].Messages

\* the non-nil elements of req.Contents, in order
Turns == SelectSeq(req, LAMBDA c : c # <<>>)

\* the role the mapping policy gives to a turn's role
PolicyRole(role) ==
    CASE role = "user" -> "user"
      [] role \in {"model", "assistant"} -> "assistant"
      [] role = "system" -> "system"
      [] OTHER -> "user"

\* what one fragment contributes to the text of its turn: its text, then a
\* placeholder for inline data, then a placeholder for a function call
FragmentText(part) ==
    part.Text
    \o (IF part.InlineData # <<>> THEN "[Inline data not yet supported]"
        ELSE "")
    \o (IF part.FunctionCall # <<>>
        THEN "[FunctionCall: " \o part.FunctionCall[1].Name \o "]" ELSE "")

\* the contributions of the first n fragments of parts, concatenated
RECURSIVE TurnText(_, _)
TurnText(parts, n) ==
    IF n = 0 THEN ""
    ELSE TurnText(parts, n - 1)
         \o (IF parts[n] = <<>> THEN "" ELSE FragmentText(parts[n][1]))

\* the option map opts has the entry k -> v
HasOption(opts, k, v) == \E i \in 1..Len(opts) : opts[i] = <<k, v>>

\* the option map opts has an entry for k
HasKey(opts, k) == \E i \in 1..Len(opts) : opts[i][1] = k

\* the field f of the generation config maps to the option k
FieldMapped(opts, f, k) ==
    IF f # <<>> THEN HasOption(opts, k, f[1]) ELSE ~HasKey(opts, k)

\* t is the sum of a and b, stated without leaving the 32-bit range
IsExactSum(t, a, b) ==
    IF a >= 0 /\ b >= 0 THEN t >= a /\ t - a = b
    ELSE IF a < 0 /\ b < 0 THEN t <= a /\ t - a = b
    ELSE t = a + b

\* the errors a generate call may yield: the wrapped error of client.Chat
GenerateErrors ==
    { m \o e : m \in {"ollama chat failed: ", "ollama streaming failed: "},
               e \in BackendErrors \cup {"consumer stopped"} }

-----------------------------------------------------------------------------
(* Properties, continued *)

\* C11: a generate call issues at most one backend call: none when the
\* context is done at the pre-check, one otherwise, and none after a backend
\* call has returned, also when it failed.
C11_AtMostOneBackendCall ==
    /\ [](/\ chatCalls <= 1
          /\ pc \in {"chat", "yield", "afterChat", "yieldLast"}
                => chatCalls = 1
          /\ (pc = "done" /\ chatCalls = 0) => (ctxErr /\ emitted = <<>>))
    /\ [][(pc = "start" /\ pc' # "start")
            => chatCalls' = (IF ctxErr THEN 0 ELSE 1)]_vars

C11_Witness ==
    /\ pc = "done" /\ ~ctxErr /\ ~stream
    /\ err = "mock API error"
    /\ chatCalls = 1
    /\ Len(delivered) >= 1

\* C12: when the request carries a generation config, the option map handed
\* to the backend has the entry temperature, top_p, num_predict for each
\* field that is present, with the request's value, and no entry for a field
\* that is absent.
C12_ConfigMappedToOptions ==
    (chatReq # <<>> /\ config # <<>>)
    => /\ FieldMapped(chatReq[1].Options, config[1].Temperature, "temperature")
       /\ FieldMapped(chatReq[1].Options, config[1].TopP, "top_p")
       /\ FieldMapped(chatReq[1].Options, config[1].MaxOutputTokens,
                      "num_predict")

\* C13: the message built for a turn has the role the mapping policy gives
\* to the turn's role: user, assistant (for model and assistant), system,
\* and user for every other role, the empty one included.
C13_RoleMappingPolicy ==
    chatReq # <<>>
    => /\ Len(Messages) = Len(Turns)
       /\ \A i \in 1..Len(Turns) :
             Messages[i].Role = PolicyRole(Turns[i][1].Role)

\* C14 as claimed: the message list has the length of req.Contents and its
\* i-th message is built from the i-th element, with no error yielded.
C14_SameLengthAsInput ==
    chatReq # <<>>
    => /\ emitted = <<>>
       /\ Len(Messages) = Len(req)
       /\ \A i \in 1..Len(req) :
             req[i] # <<>>
             => Messages[i].Content
                  = TurnText(req[i][1].Parts, Len(req[i][1].Parts))

\* C14 as amended: the message list has one message per non-nil element of
\* req.Contents, the i-th message built from the i-th non-nil element (text
\* of that turn, assistant for model, the known roles kept), with no error
\* yielded; so it has the length of req.Contents when no element is nil.
C14_OneMessagePerNonNilTurn ==
    chatReq # <<>>
    => /\ emitted = <<>>
       /\ Len(Messages) = Len(Turns)
       /\ \A i \in 1..Len(Turns) :
             /\ Messages[i].Content
                  = TurnText(Turns[i][1].Parts, Len(Turns[i][1].Parts))
             /\ Turns[i][1].Role = "model" => Messages[i].Role = "assistant"
             /\ Turns[i][1].Role \in {"user", "assistant", "system"}
                   => Messages[i].Role = Turns[i][1].Role
       /\ (\A i \in 1..Len(req) : req[i] # <<>>) => Len(Messages) = Len(req)

C14_Witness ==
    /\ chatReq # <<>>
    /\ Len(req) = 2 /\ req[1] = <<>> /\ req[2] # <<>>
    /\ req[2][1].Role = "model"
    /\ Len(Messages) = 1
    /\ Messages[1].Role = "assistant"

C16_EmptyRequestStillCalls ==
    /\ []((req = <<>> /\ chatCalls >= 1)
          => (chatReq # <<>> /\ Messages = <<>>))
    /\ [][(req = <<>> /\ pc = "start" /\ ~ctxErr /\ pc' # "start")
            => (pc' = "chat" /\ chatCalls' = 1 /\ emitted' = <<>>)]_vars

C16_Witness ==
    /\ req = <<>>
    /\ pc = "done" /\ chatCalls = 1
    /\ chatReq # <<>> /\ Messages = <<>>
    /\ Len(emitted) = 1 /\ IsResponse(emitted[1])

\* C17: the yielded response carries usage metadata exactly when one of the
\* chunk's two counts is above zero, and then its prompt and candidates
\* counts are the chunk's counts and its total is exactly their sum.
C17_UsageExactSum ==
    emitted # <<>>
    => LET r == emitted[1].resp[1]
       IN  /\ (r.UsageMetadata # <<>>)
                <=> (response.PromptEvalCount > 0 \/ response.EvalCount > 0)
           /\ r.UsageMetadata # <<>>
                => LET u == r.UsageMetadata[1]
                   IN  /\ u.PromptTokenCount = response.PromptEvalCount
                       /\ u.CandidatesTokenCount = response.EvalCount
                       /\ IsExactSum(u.TotalTokenCount, u.PromptTokenCount,
                                     u.CandidatesTokenCount)

\* C18: the yielded response has the finish reason Stop if and only if the
\* chunk it was built from has Done set.
C18_FinishReasonMirrorsDone ==
    emitted # <<>>
    => (emitted[1].resp[1].FinishReason = "STOP" <=> response.Done)

C18_Witness ==
    /\ pc = "done" /\ emitted # <<>>
    /\ ~response.Done
    /\ emitted[1].resp[1].FinishReason = ""

\* C19: whatever the chunk's text, counts and Done flag, the response built
\* from it is non-nil, its content is non-nil with the role model and
\* exactly one part, and that part's text is the chunk's text.
C19_ResponseShape ==
    emitted # <<>>
    => /\ emitted[1].resp # <<>>
       /\ LET r == emitted[1].resp[1]
          IN  /\ r.Content # <<>>
              /\ r.Content[1].Role = "model"
              /\ Len(r.Content[1].Parts) = 1
              /\ r.Content[1].Parts[1].Text = response.Message.Content

C19_Witness ==
    /\ pc = "done" /\ emitted # <<>>
    /\ response.Message.Content = ""
    /\ response.PromptEvalCount = -1
    /\ Len(emitted[1].resp[1].Content[1].Parts) = 1

\* C20: the constructor fails, with an error and without a handle, exactly
\* for a nil config, an empty model name or a base URL that does not parse;
\* otherwise the handle has the config's model name and base URL, the
\* default URL standing in for an empty one; and every error a generate call
\* on the handle yields is the wrapped error of its backend call.
C20_ConstructionFailsFast ==
    pc # "new"
    => /\ (pc = "failed")
            <=> (\/ cfg = <<>>
                 \/ cfg[1].ModelName = ""
                 \/ cfg[1].BaseURL \in MalformedURLs)
       /\ pc = "failed"
            => /\ newErr # "nil"
               /\ g = ZeroBaseModel
               /\ chatCalls = 0
               /\ emitted = <<>>
       /\ pc # "failed"
            => /\ newErr = "nil"
               /\ g.name = cfg[1].ModelName
               /\ g.name # ""
               /\ g.baseURL = (IF cfg[1].BaseURL = ""
                               THEN "http://localhost:11434"
                               ELSE cfg[1].BaseURL)
               /\ g.options = cfg[1].Options
               /\ \A i \in 1..Len(emitted) :
                     IsError(emitted[i]) => emitted[i].err \in GenerateErrors

C20_Witness ==
    /\ pc = "done"
    /\ cfg # <<>> /\ cfg[1].BaseURL = ""
    /\ g.baseURL = "http://localhost:11434"
    /\ Len(emitted) = 1 /\ IsError(emitted[1])

-----------------------------------------------------------------------------
(* Properties of several calls on one handle *)

\* every element the running call has yielded is made from what that call
\* received: a response from a chunk delivered to it (in sync mode the last
\* one, or the empty chunk), an error from the error of its backend call
FromOwnCall ==
    \A i \in 1..Len(emitted) :
       /\ IsResponse(emitted[i])
            => IF stream
               THEN /\ i <= Len(delivered)
                    /\ TextOf(emitted[i]) = delivered[i].Message.Content
               ELSE TextOf(emitted[i]) =
                       (IF delivered = <<>> THEN ""
                        ELSE delivered[Len(delivered)].Message.Content)
       /\ IsError(emitted[i])
            => /\ err # "nil"
               /\ emitted[i].err \in {"ollama chat failed: " \o err,
                                      "ollama streaming failed: " \o err}

-----------------------------------------------------------------------------
(* Properties of one call, continued *)

\* C25: a sync call yields nothing while the backend delivers chunks and at
\* most one element in all; the response it yields after several chunks is
\* the conversion of the last chunk delivered: its text, its finish reason
\* and its usage are those of that chunk.
C25_SyncEmitsOnlyLastChunk ==
    ~stream
    => /\ pc = "chat" => emitted = <<>>
       /\ Len(emitted) <= 1
       /\ emitted # <<>> /\ IsResponse(emitted[1]) /\ delivered # <<>>
            => LET last == delivered[Len(delivered)]
                   r == emitted[1].resp[1]
               IN  /\ TextOf(emitted[1]) = last.Message.Content
                   /\ (r.FinishReason = "STOP") <=> last.Done
                   /\ (r.UsageMetadata # <<>>)
                        <=> (last.PromptEvalCount > 0 \/ last.EvalCount > 0)

C25_Witness ==
    /\ ~stream
    /\ pc = "done"
    /\ Len(delivered) = 3
    /\ delivered[1].Message.Content = "Hel"
    /\ delivered[2].Done
    /\ delivered[3].Message.Content = "lo"
    /\ Len(emitted) = 1
    /\ IsResponse(emitted[1])
    /\ TextOf(emitted[1]) = "lo"

\* C26: a call whose context is cancelled while it waits, for the backend
\* or for the consumer to return from yield, eventually ends.
C26_CancelUnblocksEveryWait ==
    (ctxErr /\ pc \in {"chat", "yield", "yieldLast"}) ~> (pc = "done")

\* C26, amended: a call whose context is cancelled while it waits for the
\* backend eventually stops waiting for it: a streaming call ends, without
\* a further yield, and a sync call ends or is in its one yield.
C26_CancelUnblocksBackendWait ==
    /\ (ctxErr /\ pc = "chat") ~> (pc \in {"yieldLast", "done"})
    /\ (ctxErr /\ stream /\ pc = "chat") ~> (pc = "done")

C26_Witness ==
    /\ stream
    /\ pc = "done"
    /\ ctxErr
    /\ chatCalls = 1
    /\ Len(delivered) = Len(emitted) + 1
    /\ err = "context canceled"

\* C27: when the backend call has returned an error, the step that follows
\* looks at the context only: with the context done it yields nothing and
\* the call ends, whatever the error; with the context live it yields the
\* error of the backend as one error element, a "context canceled" error as
\* well as any other.
C27_SurfacingDependsOnContextOnly ==
    [][pc = "afterChat" /\ pc' # "afterChat" /\ err # "nil"
        => IF ctxErr
           THEN emitted' = emitted /\ pc' = "done"
           ELSE err \in BackendErrors
                  => /\ Len(emitted') = Len(emitted) + 1
                     /\ SubSeq(emitted', 1, Len(emitted)) = emitted
                     /\ IsError(emitted'[Len(emitted')])
                     /\ pc' = "yieldLast"]_vars

C27_Witness ==
    /\ ~stream
    /\ pc = "yieldLast"
    /\ ~ctxErr
    /\ err = "context canceled"
    /\ emitted = <<[resp |-> <<>>,
                    err |-> "ollama chat failed: context canceled"]>>

\* C28: a streaming call whose backend call returned nil has yielded one
\* response per delivered chunk and no error, and a response with
\* TurnComplete = true is among them iff a chunk with Done = true was
\* delivered: after no chunk, or after chunks with Done = false only, the
\* call ends without a final response.
C28_StreamNeverSynthesizes ==
    stream /\ pc = "done" /\ chatCalls = 1 /\ err = "nil"
    => /\ Len(emitted) = Len(delivered)
       /\ \A i \in 1..Len(emitted) : IsResponse(emitted[i])
       /\ (\E i \in 1..Len(emitted) : emitted[i].resp[1].TurnComplete)
            <=> (\E j \in 1..Len(delivered) : delivered[j].Done)

C28_Witness ==
    /\ stream
    /\ pc = "done"
    /\ chatCalls = 1
    /\ err = "nil"
    /\ Len(delivered) = 2
    /\ \A j \in 1..2 : ~delivered[j].Done
    /\ Len(emitted) = 2
    /\ \A i \in 1..2 : IsResponse(emitted[i]) /\ ~emitted[i].resp[1].TurnComplete

\* C29: a sync call whose backend call returned nil without delivering a
\* chunk yields exactly one response, made from the empty chunk: its text
\* is empty and it has neither usage metadata nor a finish reason.
C29_SyncEmptyChunkResponse ==
    ~stream /\ pc = "done" /\ chatCalls = 1 /\ err = "nil" /\ delivered = <<>>
    => /\ Len(emitted) = 1
       /\ IsResponse(emitted[1])
       /\ TextOf(emitted[1]) = ""
       /\ emitted[1].resp[1].UsageMetadata = <<>>
       /\ emitted[1].resp[1].FinishReason = ""

C29_Witness ==
    /\ ~stream
    /\ pc = "done"
    /\ chatCalls = 1
    /\ err = "nil"
    /\ delivered = <<>>
    /\ emitted = <<[resp |-> <<convertChatResponseToLLMResponse(ZeroChatResponse)>>,
                    err |-> "nil"]>>

-----------------------------------------------------------------------------
(* Properties of the file tools *)

\* the path string p starts with a separator
StartsWithSeparator(p) == Len(p) >= 2 /\ p[1] = ""

\* the directory names of the workspace, from the root down
WorkspaceNames == <<"tmp", "workspace">>

\* the place reached from the directory at (the names from the root down)
\* by following the components of p from the i-th on, one at a time
RECURSIVE Walk(_, _, _)
Walk(at, p, i) ==
    IF i > Len(p) THEN at
    ELSE IF p[i] \in {"", "."} THEN Walk(at, p, i + 1)
    ELSE IF p[i] = ".."
    THEN Walk(IF at = <<>> THEN at ELSE SubSeq(at, 1, Len(at) - 1), p, i + 1)
    ELSE Walk(Append(at, p[i]), p, i + 1)

\* the place named at is the workspace directory or lies below it
InWorkspace(at) == IsPrefix(WorkspaceNames, at)

\* C23: a tool call with an absolute path fails with "absolute paths are
\* not allowed"; a call with a relative path that leads out of the workspace
\* (as "../file.txt" and "subdir/../../file.txt" do) fails with "path
\* traversal detected"; and a path that is resolved resolves to the place
\* it leads to, which is the workspace directory or lies below it.
C23_PathsStayInWorkspace ==
    output.tool = "fileRead"
    => LET p == input.Path
       IN  /\ StartsWithSeparator(p)
                => /\ resolvedPath = <<>>
                   /\ output.Error =
                        "Failed to resolve path: absolute paths are not allowed"
           /\ ~StartsWithSeparator(p) /\ ~InWorkspace(Walk(WorkspaceNames, p, 1))
                => /\ resolvedPath = <<>>
                   /\ output.Error =
                        "Failed to resolve path: path traversal detected"
           /\ resolvedPath # <<>>
                => /\ Tail(resolvedPath) = Walk(WorkspaceNames, p, 1)
                   /\ InWorkspace(Tail(resolvedPath))

C23_Witness ==
    /\ input.Path = <<"subdir", "..", "..", "file.txt">>
    /\ output.Error = "Failed to resolve path: path traversal detected"
    /\ resolvedPath = <<>>

\* the content of the file at path in fs: <<>> if there is no such file
FileAt(fs, path) == IF path \in DOMAIN fs THEN <<fs[path]>> ELSE <<>>

\* C24: a fileRead that returns the content of a file written by a
\* successful fileWrite returns the content of the most recent successful
\* fileWrite to that file: a later write replaces the content, and writes
\* to other files do not change it.
C24_ReadReturnsLastWrite ==
    /\ output.tool = "fileRead"
    /\ output.Error = ""
    /\ resolvedPath \in DOMAIN lastOk
    => output.Content = lastOk[resolvedPath]

\* C30: while the last fileWrite call that returned reported Success =
\* false, the file it was to write has the content it had when the call
\* started: the call changed nothing before it returned and its writer
\* goroutine changes nothing afterwards.
C30_FailedWriteLeavesFile ==
    /\ output.tool = "fileWrite"
    /\ ~output.Success
    /\ resolvedPath # <<>>
    => FileAt(files, resolvedPath) = FileAt(before, resolvedPath)

====
